---- MODULE Spec2Model ----
(***************************************************************************)
(* Model of the upload / preview / submission workflow of the MainPage     *)
(* component (src/web/src/pages/mainPage.tsx).                             *)
(*                                                                         *)
(* The component's React state (file, previewUrl, isUploading,             *)
(* uploadStatus) is the model's state, together with the two external      *)
(* collaborators the handlers talk to: the browser's object-URL store      *)
(* (urlCalls, the calls made to URL.createObjectURL / URL.revokeObjectURL  *)
(* in program order) and the network (network, the POSTs issued; tasks,    *)
(* the sendToBackend invocations suspended at one of their two awaits).    *)
(*                                                                         *)
(* Each handler is one action: React runs a handler to completion, applies *)
(* its batched state updates, commits the render and runs the effect       *)
(* cleanup of useEffect(..., [previewUrl]) before the next event is        *)
(* delivered.                                                              *)
(***************************************************************************)
EXTENDS Integers, Sequences, FiniteSets, TLC

VARIABLES
    mounted,       \* the component is mounted (between mount and unmount)
    file,          \* useState<File | null>            (line 11)
    previewUrl,    \* useState<string | null>          (line 12)
    previewOf,     \* the File the URL in previewUrl was created from by
                   \* URL.createObjectURL(selectedFile) (line 38)
    isUploading,   \* useState(false)                  (line 13)
    uploadStatus,  \* useState({type, message})        (lines 14-17)
    statusOf,      \* the preview URL (selection) captured by the sendToBackend
                   \* call that wrote uploadStatus; NoUrl when no call did
    urlCalls,      \* calls made to URL.createObjectURL / revokeObjectURL
    network,       \* the requests handed to fetch, in order
    jsonFailed,    \* the last `await response.json()` threw and was logged
                   \* by console.error (lines 96-98)
    tasks          \* sendToBackend invocations suspended at an await

vars == <<mounted, file, previewUrl, previewOf, isUploading, uploadStatus, statusOf,
          urlCalls, network, jsonFailed, tasks>>

----------------------------------------------------------------------------
(* Bounds of the model *)

\* object URLs created in one run
MaxUrls == 2
\* POST requests issued in one run
MaxPosts == 2
\* candidates handed to one selection event
MaxCandidates == 2

----------------------------------------------------------------------------
(* Values *)

\* `null` of File | null
NoFile == [name |-> "", type |-> "", isNull |-> TRUE]

\* `null` of string | null for previewUrl; object URLs are numbered from 1
NoUrl == 0

File(n, t) == [name |-> n, type |-> t, isNull |-> FALSE]

\* The files the user can pick: an image, a video, a document, and a file
\* whose media type the browser could not determine (File.type = "").
Files ==
    { File("a.png", "image/png"),
      File("b.mp4", "video/mp4"),
      File("c.pdf", "application/pdf"),
      File("d", "") }

\* Selection events: the sequences of candidates of length 0..MaxCandidates
Candidates == UNION { [1..n -> Files] : n \in 0..MaxCandidates }

API_BASE_URL == "/api"

\* { type: null, message: "" }
IdleStatus == [type |-> "null", message |-> ""]

\* String.prototype.startsWith
startsWith(s, p) == Len(s) >= Len(p) /\ SubSeq(s, 1, Len(p)) = p


----------------------------------------------------------------------------
(* The browser's object-URL store *)

Create(u) == [op |-> "create", url |-> u]
Revoke(u) == [op |-> "revoke", url |-> u]

RECURSIVE Count(_, _)
\* number of calls of `calls` that are `op`
Count(calls, op) ==
    IF calls = <<>> THEN 0
    ELSE (IF Head(calls).op = op THEN 1 ELSE 0) + Count(Tail(calls), op)

\* number of revokeObjectURL calls made on object URL u
RevokeCalls(calls, u) ==
    Cardinality({ i \in DOMAIN calls : calls[i] = Revoke(u) })

\* the object URLs created by `calls`
Created(calls) == { calls[i].url : i \in { j \in DOMAIN calls : calls[j].op = "create" } }

\* the object URLs live after `calls`: created and not revoked since
Live(calls) == { u \in Created(calls) : RevokeCalls(calls, u) = 0 }

\* URL.revokeObjectURL(url): releases url; a no-op on a released url
revokeObjectURL(calls, url) == Append(calls, Revoke(url))

\* URL.createObjectURL(file) returns a URL never handed out before
newObjectURL(calls) == Count(calls, "create") + 1
createObjectURL(calls) == Append(calls, Create(newObjectURL(calls)))

\* an effect that returns no cleanup
effectCleanupMissing(calls, url) == calls

\* The cleanup returned by the effect: revoke the previewUrl it closed over
effectCleanup(calls, url) ==
    IF url # NoUrl THEN revokeObjectURL(calls, url) ELSE calls

\* a cleanup that reads the URL of the new render instead of the one it
\* closed over
commitEffectsLatest(calls, oldUrl, newUrl) ==
    IF oldUrl # newUrl THEN effectCleanup(calls, newUrl) ELSE calls

\* Commit of a render: the effect depends on [previewUrl], so the previous
\* render's cleanup runs exactly when previewUrl changed.
commitEffects(calls, oldUrl, newUrl) ==
    IF oldUrl # newUrl THEN effectCleanup(calls, oldUrl) ELSE calls

\* handleFileUpload without its revoke: the prior URL is left to the cleanup
releasePriorMissing(calls, url) == calls

\* `if (previewUrl) URL.revokeObjectURL(previewUrl)` of handleFileUpload
releasePrior(calls, url) ==
    IF url # NoUrl THEN revokeObjectURL(calls, url) ELSE calls

\* the same statement of clearFile
releaseOnClear(calls, url) ==
    IF url # NoUrl THEN revokeObjectURL(calls, url) ELSE calls

\* The URL calls of handleFileUpload with a non-empty selection: release
\* the URL in state, then create the new one.
selectUrlCalls(calls, url) == createObjectURL(releasePrior(calls, url))

----------------------------------------------------------------------------
(* Selection and clearing *)

\* a handler that resets the feedback before looking at the selection
handleFileUploadResets(files) ==
    IF Len(files) > 0
    THEN LET selectedFile == files[1]
             calls        == selectUrlCalls(urlCalls, previewUrl)
             url          == calls[Len(calls)].url
         IN  /\ file' = selectedFile
             /\ uploadStatus' = IdleStatus
             /\ statusOf' = NoUrl
             /\ previewUrl' = url
             /\ previewOf' = selectedFile
             /\ urlCalls' = commitEffects(calls, previewUrl, url)
             /\ UNCHANGED <<mounted, isUploading, network, jsonFailed, tasks>>
    ELSE /\ uploadStatus' = IdleStatus
         /\ statusOf' = NoUrl
         /\ UNCHANGED <<mounted, file, previewUrl, previewOf, isUploading,
                        urlCalls, network, jsonFailed, tasks>>

\* a handler that stores the last candidate but previews the first
handleFileUploadLast(files) ==
    IF Len(files) > 0
    THEN LET selectedFile == files[Len(files)]
             calls        == selectUrlCalls(urlCalls, previewUrl)
             url          == calls[Len(calls)].url
         IN  /\ file' = selectedFile
             /\ uploadStatus' = IdleStatus
             /\ statusOf' = NoUrl
             /\ previewUrl' = url
             /\ previewOf' = files[1]
             /\ urlCalls' = commitEffects(calls, previewUrl, url)
             /\ UNCHANGED <<mounted, isUploading, network, jsonFailed, tasks>>
    ELSE UNCHANGED vars

\* handleFileUpload(files), followed by the commit of the render it causes
handleFileUpload(files) ==
    IF Len(files) > 0
    THEN LET selectedFile == files[1]
             calls        == selectUrlCalls(urlCalls, previewUrl)
             url          == calls[Len(calls)].url
         IN  /\ file' = selectedFile
             /\ uploadStatus' = IdleStatus
             /\ statusOf' = NoUrl
             /\ previewUrl' = url
             /\ previewOf' = selectedFile
             /\ urlCalls' = commitEffects(calls, previewUrl, url)
             /\ UNCHANGED <<mounted, isUploading, network, jsonFailed, tasks>>
    ELSE UNCHANGED vars

\* a clearFile that leaves the feedback on screen
clearFileKeepsStatus ==
    /\ file' = NoFile
    /\ previewUrl' = NoUrl
    /\ previewOf' = NoFile
    /\ urlCalls' = commitEffects(releaseOnClear(urlCalls, previewUrl),
                                 previewUrl, NoUrl)
    /\ UNCHANGED <<mounted, isUploading, uploadStatus, statusOf, network,
                   jsonFailed, tasks>>

\* a clearFile that drops the file but not the preview URL
clearFileKeepsUrl ==
    /\ file' = NoFile
    /\ uploadStatus' = IdleStatus
    /\ statusOf' = NoUrl
    /\ UNCHANGED <<mounted, previewUrl, previewOf, isUploading, urlCalls,
                   network, jsonFailed, tasks>>

\* clearFile(), followed by the commit of the render it causes
clearFile ==
    /\ file' = NoFile
    /\ previewUrl' = NoUrl
    /\ previewOf' = NoFile
    /\ uploadStatus' = IdleStatus
    /\ statusOf' = NoUrl
    /\ urlCalls' = commitEffects(releaseOnClear(urlCalls, previewUrl),
                                 previewUrl, NoUrl)
    /\ UNCHANGED <<mounted, isUploading, network, jsonFailed, tasks>>

----------------------------------------------------------------------------
(* The backend's answers *)

\* Thrown values: instances of TypeError, of Error, and values that are no
\* Error at all
TypeError(m) == [class |-> "TypeError", message |-> m]
Error(m)     == [class |-> "Error", message |-> m]
NonError     == [class |-> "NonError", message |-> ""]

\* fetch rejects with a TypeError when the request cannot reach the server;
\* the Fetch standard leaves the message to the browser (Chromium, WebKit,
\* Gecko).
FetchRejections ==
    { TypeError("Failed to fetch"),
      TypeError("Load failed"),
      TypeError("NetworkError when attempting to fetch resource.") }

\* A parsed JSON object of the shape { detail?, error?, message?,
\* frame_index_in_valid_list? }: a function from the fields present to values.
FieldNames == {"detail", "error", "message", "frame_index_in_valid_list"}

\* d, e, m, f: the value of each field as a sequence, empty when the field
\* is absent
JsonObject(d, e, m, f) ==
    [ k \in { n \in FieldNames :
                \/ n = "detail" /\ d # <<>>
                \/ n = "error" /\ e # <<>>
                \/ n = "message" /\ m # <<>>
                \/ n = "frame_index_in_valid_list" /\ f # <<>> }
      |-> IF k = "detail" THEN d[1]
          ELSE IF k = "error" THEN e[1]
          ELSE IF k = "message" THEN m[1]
          ELSE f[1] ]

\* what `await response.json()` leaves in responseData: null when json()
\* throws (line 93 initial value) or the body is the JSON null, else the object
JsonNull == [isObject |-> FALSE, fields |-> <<>>]
Json(o)  == [isObject |-> TRUE, fields |-> o]

JsonObjects ==
    { JsonObject(d, e, m, f) :
        d \in {<<>>, <<"">>, <<"bad frame">>},
        e \in {<<>>, <<"boom">>},
        m \in {<<>>, <<"try again">>},
        f \in {<<>>, <<0>>} }

\* outcomes of response.json(): it throws, or yields null or an object
JsonOutcomes ==
    { [throws |-> TRUE, value |-> JsonNull], [throws |-> FALSE, value |-> JsonNull] }
    \cup { [throws |-> FALSE, value |-> Json(o)] : o \in JsonObjects }

\* A Response: status, ok (status in 200..299), statusText (empty over
\* HTTP/2) and the body, given as what response.json() makes of it
Response(st, txt, body) ==
    [status |-> st, ok |-> (st >= 200 /\ st <= 299), statusText |-> txt,
     body |-> body]

NoResponse == [status |-> 0, ok |-> FALSE, statusText |-> "", body |-> <<>>]

Responses ==
    { Response(st[1], st[2], b) :
        st \in { <<200, "OK">>, <<422, "Unprocessable Entity">>, <<500, "">> },
        b \in JsonOutcomes }

\* lines 93-98: responseData stays null when response.json() throws
parsedBody(response) ==
    IF response.body.throws THEN JsonNull ELSE response.body.value

----------------------------------------------------------------------------
(* Reduction of the answer to a status *)

RECURSIVE join(_, _)
\* Array.prototype.join
join(details, sep) ==
    IF details = <<>> THEN ""
    ELSE IF Len(details) = 1 THEN details[1]
    ELSE details[1] \o sep \o join(Tail(details), sep)

\* a push on `f in responseData` instead of on the field's truthiness
pushIfPresent(details, o, f) ==
    IF f \in DOMAIN o THEN Append(details, o[f]) ELSE details

\* `if (responseData.f) details.push(responseData.f)` for a string field f:
\* pushed when the field is there and is not the empty string
pushIfTruthy(details, o, f) ==
    IF f \in DOMAIN o /\ o[f] # "" THEN Append(details, o[f]) ELSE details

\* `if (responseData.frame_index_in_valid_list !== undefined) details.push(...)`
pushFrameIndex(details, o) ==
    IF "frame_index_in_valid_list" \in DOMAIN o
    THEN Append(details, "Frame index: " \o ToString(o["frame_index_in_valid_list"]))
    ELSE details

\* the details array of lines 104-112
errorDetails(o) ==
    pushFrameIndex(
        pushIfTruthy(
            pushIfTruthy(
                pushIfTruthy(<<>>, o, "detail"),
                o, "error"),
            o, "message"),
        o)

\* errorMessage of lines 101-118
serverErrorMessage(response, data) ==
    "Server error (" \o ToString(response.status) \o "): " \o
        (IF data.isObject
         THEN (IF Len(errorDetails(data.fields)) > 0
               THEN join(errorDetails(data.fields), " | ")
               ELSE response.statusText)
         ELSE response.statusText)

\* a catch block that never looks at what it caught
catchMessageGeneric(error) == "Failed to upload file"

\* errorMessage of the catch block, lines 130-138
catchMessage(error) ==
    IF error.class = "TypeError" /\ error.message = "Failed to fetch"
    THEN "Network error: Cannot connect to the server. Check if the API is running at "
         \o API_BASE_URL
    ELSE IF error.class \in {"TypeError", "Error"}
    THEN error.message
    ELSE "Failed to upload file"

\* the status the catch block sets, lines 140-143
errorStatus(error) == [type |-> "error", message |-> catchMessage(error)]

\* a success message that ignores isVideo
successStatusImage(isVideo) ==
    [type |-> "success", message |-> "Image uploaded successfully!"]

\* the status set on success, lines 123-126
successStatus(isVideo) ==
    [type |-> "success",
     message |-> (IF isVideo THEN "Video" ELSE "Image") \o " uploaded successfully!"]

\* an early return that reports nothing
noFileStatusSilent == [type |-> "null", message |-> ""]

\* the status set when no file is selected, lines 56-59
noFileStatus == [type |-> "error", message |-> "Please select a file first"]

----------------------------------------------------------------------------
(* Submission *)

\* a request built without the fps and seconds fields of the video path
RequestBare(f) ==
    LET isVideo == startsWith(f.type, "video/")
    IN  [method   |-> "POST",
         endpoint |-> IF isVideo
                      THEN API_BASE_URL \o "/arms/from_video"
                      ELSE API_BASE_URL \o "/arms/from_image",
         formData |-> IF isVideo THEN << <<"video", f>> >> ELSE << <<"image", f>> >>]

\* the request handed to fetch, lines 67-91
Request(f) ==
    LET isVideo == startsWith(f.type, "video/")
    IN  [method   |-> "POST",
         endpoint |-> IF isVideo
                      THEN API_BASE_URL \o "/arms/from_video"
                      ELSE API_BASE_URL \o "/arms/from_image",
         formData |-> IF isVideo
                      THEN << <<"video", f>>, <<"fps", "1">>, <<"seconds", "-1">> >>
                      ELSE << <<"image", f>> >>]

\* a sendToBackend invocation suspended at `await fetch` (pc = "fetch") or
\* at `await response.json()` (pc = "json"); file, url and isVideo are what
\* its closure holds
Task(id, f, url) ==
    [id |-> id, file |-> f, url |-> url,
     isVideo |-> startsWith(f.type, "video/"),
     pc |-> "fetch", response |-> NoResponse]

\* the flag left raised by line 63 when no finally block lowers it
finallyMissing == TRUE

\* the finally block, line 147
finallyUploading == FALSE

\* The state updates with which an invocation ends: the status it set and
\* the finally block. React drops updates of an unmounted component.
finish(status, url) ==
    IF mounted
    THEN /\ uploadStatus' = status
         /\ statusOf' = url
         /\ isUploading' = finallyUploading
    ELSE UNCHANGED <<uploadStatus, statusOf, isUploading>>

\* a sendToBackend that raises the flag but leaves the prior feedback (no
\* line 64)
sendToBackendKeepsStatus ==
    IF file = NoFile
    THEN /\ uploadStatus' = noFileStatus
         /\ statusOf' = NoUrl
         /\ UNCHANGED <<mounted, file, previewUrl, previewOf, isUploading, urlCalls,
                        network, jsonFailed, tasks>>
    ELSE LET isVideo == startsWith(file.type, "video/")
             isImage == startsWith(file.type, "image/")
         IN  IF ~isVideo /\ ~isImage
             THEN /\ finish(errorStatus(Error("Please upload a valid video or image file")),
                            previewUrl)
                  /\ UNCHANGED <<mounted, file, previewUrl, previewOf, urlCalls, network,
                                 jsonFailed, tasks>>
             ELSE /\ isUploading' = TRUE
                  /\ UNCHANGED <<uploadStatus, statusOf>>
                  /\ network' = Append(network, Request(file))
                  /\ tasks' = tasks \cup {Task(Len(network) + 1, file, previewUrl)}
                  /\ UNCHANGED <<mounted, file, previewUrl, previewOf, urlCalls, jsonFailed>>

\* sendToBackend() up to its first await (or to its end, when it has none)
sendToBackend ==
    IF file = NoFile
    THEN /\ uploadStatus' = noFileStatus
         /\ statusOf' = NoUrl
         /\ UNCHANGED <<mounted, file, previewUrl, previewOf, isUploading, urlCalls,
                        network, jsonFailed, tasks>>
    ELSE LET isVideo == startsWith(file.type, "video/")
             isImage == startsWith(file.type, "image/")
         IN  IF ~isVideo /\ ~isImage
             THEN /\ finish(errorStatus(Error("Please upload a valid video or image file")),
                            previewUrl)
                  /\ UNCHANGED <<mounted, file, previewUrl, previewOf, urlCalls, network,
                                 jsonFailed, tasks>>
             ELSE /\ isUploading' = TRUE
                  /\ uploadStatus' = IdleStatus
                  /\ statusOf' = NoUrl
                  /\ network' = Append(network, Request(file))
                  /\ tasks' = tasks \cup {Task(Len(network) + 1, file, previewUrl)}
                  /\ UNCHANGED <<mounted, file, previewUrl, previewOf, urlCalls, jsonFailed>>

\* `await fetch(...)` resolves with a Response: on to `await response.json()`
FetchResolved ==
    \E t \in tasks, r \in Responses :
        /\ t.pc = "fetch"
        /\ tasks' = (tasks \ {t}) \cup {[t EXCEPT !.pc = "json", !.response = r]}
        /\ UNCHANGED <<mounted, file, previewUrl, previewOf, isUploading, uploadStatus,
                       statusOf, urlCalls, network, jsonFailed>>

\* `await fetch(...)` rejects: catch and finally run
FetchRejected ==
    \E t \in tasks, e \in FetchRejections :
        /\ t.pc = "fetch"
        /\ tasks' = tasks \ {t}
        /\ finish(errorStatus(e), t.url)
        /\ UNCHANGED <<mounted, file, previewUrl, previewOf, urlCalls, network, jsonFailed>>

\* `await response.json()` settles: lines 93-148
JsonSettled ==
    \E t \in tasks :
        /\ t.pc = "json"
        /\ tasks' = tasks \ {t}
        /\ jsonFailed' = t.response.body.throws
        /\ LET responseData == parsedBody(t.response)
           IN  IF ~t.response.ok
               THEN finish(errorStatus(Error(serverErrorMessage(t.response, responseData))),
                           t.url)
               ELSE finish(successStatus(t.isVideo), t.url)
        /\ UNCHANGED <<mounted, file, previewUrl, previewOf, urlCalls, network>>

----------------------------------------------------------------------------
(* The component's life *)

Init ==
    /\ mounted = TRUE
    /\ file = NoFile
    /\ previewUrl = NoUrl
    /\ previewOf = NoFile
    /\ isUploading = FALSE
    /\ uploadStatus = IdleStatus
    /\ statusOf = NoUrl
    /\ urlCalls = <<>>
    /\ network = <<>>
    /\ jsonFailed = FALSE
    /\ tasks = {}

\* the selection stays within the bound on object URLs
WithinUrls(files) == Len(files) > 0 => Count(urlCalls, "create") < MaxUrls

\* the submission stays within the bound on requests
WithinPosts ==
    (file # NoFile /\ (startsWith(file.type, "video/") \/ startsWith(file.type, "image/")))
        => Len(network) < MaxPosts

\* <FileUpload onChange={handleFileUpload} />, line 166
OnChange ==
    \E files \in Candidates :
        /\ mounted
        /\ WithinUrls(files)
        /\ handleFileUpload(files)

\* the clear button, rendered when file && previewUrl, lines 168-177
ClickClear ==
    /\ mounted
    /\ file # NoFile /\ previewUrl # NoUrl
    /\ clearFile

\* a submit button that is never disabled
ClickSendNeverDisabled ==
    /\ mounted
    /\ file # NoFile /\ previewUrl # NoUrl
    /\ WithinPosts
    /\ sendToBackend

\* the submit button, rendered when file && previewUrl and disabled while
\* isUploading, lines 168, 206-212
ClickSend ==
    /\ mounted
    /\ file # NoFile /\ previewUrl # NoUrl
    /\ ~isUploading
    /\ WithinPosts
    /\ sendToBackend

\* unmount: the last render's effect cleanup runs, lines 22-26
Unmount ==
    /\ mounted
    /\ mounted' = FALSE
    /\ urlCalls' = effectCleanup(urlCalls, previewUrl)
    /\ UNCHANGED <<file, previewUrl, previewOf, isUploading, uploadStatus, statusOf,
                   network, jsonFailed, tasks>>

\* The component driven through what it renders
Next ==
    \/ OnChange
    \/ ClickClear
    \/ ClickSend
    \/ FetchResolved
    \/ FetchRejected
    \/ JsonSettled
    \/ Unmount

Spec == Init /\ [][Next]_vars

\* The same component when every network call settles and the event loop
\* runs the continuation of every settled await: a pending fetch resolves or
\* rejects, a pending response.json() settles.
SpecFair ==
    /\ Spec
    /\ WF_vars(FetchResolved \/ FetchRejected)
    /\ WF_vars(JsonSettled)

\* The handlers called as the operations selectFile, clear and submit, in
\* any order while the component is mounted, whatever is rendered: clear and
\* submit are called with or without a selection. The caller starts no
\* submission while isUploading is raised (the one gate the code has,
\* line 211).
CallSelect ==
    \E files \in Candidates :
        /\ mounted
        /\ WithinUrls(files)
        /\ handleFileUpload(files)

CallClear == mounted /\ clearFile

CallSubmit == mounted /\ ~isUploading /\ WithinPosts /\ sendToBackend

NextCall ==
    \/ CallSelect
    \/ CallClear
    \/ CallSubmit
    \/ FetchResolved
    \/ FetchRejected
    \/ JsonSettled
    \/ Unmount

SpecCall == Init /\ [][NextCall]_vars

----------------------------------------------------------------------------
(* Properties: the preview handle *)

\* the URL calls made up to and including the k-th
CallsUpTo(k) == SubSeq(urlCalls, 1, k)

\* C1: at most one PreviewHandle (object URL created and not yet revoked) is
\* live at any point of any run of selections, clears, submissions and
\* teardown: after every call made to the object-URL store at most one URL
\* is live, so each createObjectURL comes after the release of the prior URL.
C1_AtMostOneLiveHandle ==
    \A k \in 0..Len(urlCalls) : Cardinality(Live(CallsUpTo(k))) <= 1

\* C1 witness: a second handle was created and exactly one handle is live
C1_Witness ==
    /\ Count(urlCalls, "create") = 2
    /\ Live(urlCalls) = {previewUrl}
    /\ mounted

\* C2 as claimed: after N selections and teardown every handle has received
\* exactly one release call.
C2_ExactlyOneReleaseCall ==
    ~mounted => \A u \in Created(urlCalls) : RevokeCalls(urlCalls, u) = 1

\* C2 amended: after N selections and teardown no handle is live and none
\* was never released; the handle held at teardown received exactly one
\* release call (the teardown's) and every superseded or cleared handle
\* exactly two (the handler's, then the effect cleanup's on the released URL).
C2_ReleaseCallsAfterTeardown ==
    ~mounted =>
        /\ Live(urlCalls) = {}
        /\ \A u \in Created(urlCalls) :
              RevokeCalls(urlCalls, u) = (IF u = previewUrl THEN 1 ELSE 2)

\* C2 witness: two selections, then teardown
C2_Witness ==
    /\ ~mounted
    /\ Count(urlCalls, "create") = 2
    /\ previewUrl # NoUrl

----------------------------------------------------------------------------
(* Properties: the status and the in-flight flag *)

\* C3 as claimed: whenever UploadStatus is Success or Error from a
\* submission, that submission was of the current selection (no stale
\* feedback after a selection or clear made while it was in flight).
C3_NoStaleFeedback ==
    (mounted /\ uploadStatus.type # "null" /\ statusOf # NoUrl)
        => statusOf = previewUrl

\* C4: while the component is mounted, InFlightFlag is raised exactly when a
\* submission has started and not yet resolved, on every path.
C4_InFlightIffOutstanding ==
    mounted => (isUploading <=> tasks # {})

\* C4 witness: a submission waits for its response body, the flag is raised
C4_Witness ==
    /\ mounted
    /\ isUploading
    /\ \E t \in tasks : t.pc = "json" /\ ~t.response.ok

----------------------------------------------------------------------------
(* Properties: submission *)

\* C5 as claimed: a submit with no file selected sets the status to
\* Error("no file selected"), issues no network call and returns at once.
C5_NoFileAsClaimed ==
    [][ (CallSubmit /\ file = NoFile) =>
            /\ uploadStatus' = [type |-> "error", message |-> "no file selected"]
            /\ network' = network
            /\ tasks' = tasks
            /\ isUploading' = isUploading ]_vars

\* C5 amended: a submit with no file selected sets the status to
\* Error("Please select a file first"), issues no network call and returns
\* at once: it starts no task and leaves InFlightFlag alone.
C5_NoFileRejected ==
    [][ (CallSubmit /\ file = NoFile) =>
            /\ uploadStatus' = [type |-> "error", message |-> "Please select a file first"]
            /\ network' = network
            /\ tasks' = tasks
            /\ isUploading' = isUploading ]_vars

\* C5 witness: submit was called with nothing selected
C5_Witness ==
    /\ mounted
    /\ file = NoFile
    /\ uploadStatus = [type |-> "error", message |-> "Please select a file first"]
    /\ network = <<>>

\* the selected file's media type starts with neither image/ nor video/
Unsupported(f) == ~startsWith(f.type, "image/") /\ ~startsWith(f.type, "video/")

\* C6 as claimed: submitting a file whose media type starts with neither
\* image/ nor video/ sets the status to Error("unsupported file type") and
\* issues no network call.
C6_UnsupportedAsClaimed ==
    [][ (ClickSend /\ Unsupported(file)) =>
            /\ uploadStatus' = [type |-> "error", message |-> "unsupported file type"]
            /\ network' = network
            /\ tasks' = tasks ]_vars

\* C6 amended: submitting a file whose media type starts with neither
\* image/ nor video/ sets the status to
\* Error("Please upload a valid video or image file") and issues no network
\* call.
C6_UnsupportedRejected ==
    [][ (ClickSend /\ Unsupported(file)) =>
            /\ uploadStatus' = [type |-> "error",
                                message |-> "Please upload a valid video or image file"]
            /\ network' = network
            /\ tasks' = tasks ]_vars

\* C6 witness: a document was submitted and rejected locally
C6_Witness ==
    /\ mounted
    /\ file.type = "application/pdf"
    /\ uploadStatus = [type |-> "error",
                       message |-> "Please upload a valid video or image file"]
    /\ statusOf = previewUrl
    /\ network = <<>>

\* the request the claim prescribes for file f
C7_Prescribed(f) ==
    IF startsWith(f.type, "image/")
    THEN [method |-> "POST", endpoint |-> "/api/arms/from_image",
          formData |-> << <<"image", f>> >>]
    ELSE [method |-> "POST", endpoint |-> "/api/arms/from_video",
          formData |-> << <<"video", f>>, <<"fps", "1">>, <<"seconds", "-1">> >>]

\* C7: one submit of a selected image or video issues exactly one POST, to
\* the image endpoint with the single field image, or to the video endpoint
\* with the fields video, fps = "1", seconds = "-1", carrying the file
\* selected when the submit started; no other step issues a request (no
\* retry), and the request of every pending submission is the one prescribed
\* for the file it started with.
C7_OnePostPerSubmit ==
    [][ /\ IF ClickSend /\ ~Unsupported(file)
           THEN network' = Append(network, C7_Prescribed(file))
           ELSE network' = network
        /\ \A t \in tasks' : network'[t.id] = C7_Prescribed(t.file) ]_vars

\* C7 witness: a video was submitted, its request is out, and the selection
\* has changed since
C7_Witness ==
    /\ Len(network) = 1
    /\ network[1].endpoint = "/api/arms/from_video"
    /\ \E t \in tasks : t.file # file

----------------------------------------------------------------------------
(* Properties: reduction of the answer *)

\* a submission past `await fetch` ends in this step
Settles(t) == t.pc = "json" /\ t \notin tasks'

\* a submission's fetch is rejected in this step
Rejected(t) == t.pc = "fetch" /\ \A u \in tasks' : u.id # t.id

\* the fields of the parsed body (none when there is no object)
C8_Fields(response) ==
    IF response.body.throws \/ ~response.body.value.isObject
    THEN <<>>
    ELSE response.body.value.fields

\* the string fields of o among `kept`, in the claim's order, then the frame
\* index
C8_Details(o, kept) ==
    LET Keep(f)  == f \in kept
        names == SelectSeq(<<"detail", "error", "message">>, Keep)
        texts == [i \in 1..Len(names) |-> o[names[i]]]
    IN  IF "frame_index_in_valid_list" \in DOMAIN o
        THEN Append(texts, "Frame index: " \o ToString(o["frame_index_in_valid_list"]))
        ELSE texts

C8_Message(response, details) ==
    "Server error (" \o ToString(response.status) \o "): " \o
        (IF details = <<>> THEN response.statusText ELSE join(details, " | "))

\* C8 as claimed: a non-success response gives Error with the status code
\* followed by every present field among detail, error, message and the
\* frame index, in that order; the status text iff none is present.
C8_EveryPresentField ==
    [][ \A t \in tasks : (mounted /\ Settles(t) /\ ~t.response.ok) =>
            LET o == C8_Fields(t.response)
                Present == DOMAIN o
            IN  uploadStatus' =
                    [type |-> "error",
                     message |-> C8_Message(t.response, C8_Details(o, Present))] ]_vars

\* C8 amended: a non-success response gives Error with the status code
\* followed by every field among detail, error, message that is present and
\* not empty, and the frame index whenever present, in that order; the
\* status text iff there is no such field (also when the body cannot be
\* parsed or is null).
C8_EveryNonEmptyField ==
    [][ \A t \in tasks : (mounted /\ Settles(t) /\ ~t.response.ok) =>
            LET o == C8_Fields(t.response)
                NonEmpty == { f \in DOMAIN o \ {"frame_index_in_valid_list"} : o[f] # "" }
            IN  uploadStatus' =
                    [type |-> "error",
                     message |-> C8_Message(t.response, C8_Details(o, NonEmpty))] ]_vars

\* C8 witness: a 422 answer carrying all four fields was reduced
C8_Witness ==
    /\ mounted
    /\ ~jsonFailed
    /\ uploadStatus =
          [type |-> "error",
           message |-> "Server error (422): bad frame | boom | try again | Frame index: 0"]

\* C9: every response with a success status sets Success with
\* "Video uploaded successfully!" for a video/ file and "Image uploaded
\* successfully!" for an image/ file, whether or not its body parses.
C9_SuccessMessage ==
    [][ \A t \in tasks : (mounted /\ Settles(t) /\ t.response.ok) =>
            /\ uploadStatus'.type = "success"
            /\ startsWith(t.file.type, "video/") =>
                   uploadStatus'.message = "Video uploaded successfully!"
            /\ startsWith(t.file.type, "image/") =>
                   uploadStatus'.message = "Image uploaded successfully!"
            /\ startsWith(t.file.type, "video/") \/ startsWith(t.file.type, "image/") ]_vars

\* C9 witness: a video upload succeeded although its body did not parse
C9_Witness ==
    /\ mounted
    /\ jsonFailed
    /\ file.type = "video/mp4"
    /\ statusOf = previewUrl
    /\ uploadStatus = [type |-> "success", message |-> "Video uploaded successfully!"]

\* C10 as claimed: whenever the network call fails to reach the server the
\* status is Error with the connectivity message naming the base endpoint
\* /api.
C10_TransportFailureNamesEndpoint ==
    [][ \A t \in tasks : (mounted /\ Rejected(t)) =>
            uploadStatus' =
                [type |-> "error",
                 message |-> "Network error: Cannot connect to the server. "
                             \o "Check if the API is running at /api"] ]_vars

----------------------------------------------------------------------------
(* Properties: selection and clearing *)

\* a selection event with at least one candidate
Selections == { files \in Candidates : Len(files) > 0 }

\* C11: from any state whose status is Success or Error, a clear or a
\* non-empty selection sets the status to Idle; a clear also releases the
\* handle held in state and leaves no selected file and no live handle.
C11_ClearOrSelectResets ==
    [][ (uploadStatus.type # "null") =>
            /\ CallClear =>
                  /\ uploadStatus' = IdleStatus
                  /\ file' = NoFile
                  /\ previewUrl' = NoUrl
                  /\ Live(urlCalls') = {}
                  /\ previewUrl # NoUrl => RevokeCalls(urlCalls', previewUrl) >= 1
            /\ \A files \in Selections :
                  (mounted /\ handleFileUpload(files)) => uploadStatus' = IdleStatus
      ]_vars

\* C11 witness: the one selection was submitted, the submission ended and
\* set the status, and a clear then emptied the component
C11_Witness ==
    /\ mounted
    /\ Count(urlCalls, "create") = 1
    /\ network # <<>> /\ tasks = {}
    /\ file = NoFile /\ previewUrl = NoUrl
    /\ uploadStatus = IdleStatus
    /\ Live(urlCalls) = {}

\* C12: a selection event with no candidates changes nothing: selected
\* file, preview handle (no release, no creation), status and in-flight flag
\* stay as they are.
C12_EmptySelectionNoChange ==
    [][ (mounted /\ handleFileUpload(<<>>)) =>
            /\ file' = file
            /\ previewUrl' = previewUrl /\ previewOf' = previewOf
            /\ urlCalls' = urlCalls
            /\ uploadStatus' = uploadStatus
            /\ isUploading' = isUploading ]_vars

\* C12 witness: a state in which an empty selection would show if it did
\* anything: a file is selected, its handle is live, feedback of its
\* submission is on screen
C12_Witness ==
    /\ mounted
    /\ file # NoFile /\ Live(urlCalls) = {previewUrl}
    /\ uploadStatus.type = "success"
    /\ statusOf = previewUrl

\* C13: a selection event with candidates stores the first candidate only,
\* whatever its type, sets the status to Idle and leaves exactly one live
\* handle, newly created from the file now selected.
C13_FirstCandidateSelected ==
    [][ \A files \in Selections :
            (mounted /\ handleFileUpload(files)) =>
                /\ file' = files[1]
                /\ uploadStatus' = IdleStatus
                /\ Live(urlCalls') = {previewUrl'}
                /\ previewUrl' \notin Created(urlCalls)
                /\ previewOf' = file' ]_vars

\* C13 witness: an unsupported file is selected in place of an earlier
\* selection and has the one live handle
C13_Witness ==
    /\ mounted
    /\ file.type = "application/pdf"
    /\ previewOf = file
    /\ Count(urlCalls, "create") = 2
    /\ Live(urlCalls) = {previewUrl}
    /\ uploadStatus = IdleStatus

----------------------------------------------------------------------------
(* Properties: the submission in flight *)

\* C14: a submit of a selected image or video raises InFlightFlag and sets
\* the status to Idle in the step that issues the request, clearing any
\* prior feedback, and in every state from there until the response settles
\* the flag is raised and the status is Idle.
C14_RaisedAndIdleWhileInFlight ==
    /\ [](mounted /\ tasks # {} => isUploading /\ uploadStatus = IdleStatus)
    /\ [][ (ClickSend /\ ~Unsupported(file)) =>
              /\ isUploading' /\ uploadStatus' = IdleStatus
              /\ Len(network') = Len(network) + 1
              /\ tasks' # {} ]_vars

\* C14 witness: the same selection is submitted a second time, after the
\* first submission ended and set the status; the request is pending
C14_Witness ==
    /\ mounted
    /\ Count(urlCalls, "create") = 1
    /\ Len(network) = 2
    /\ \E t \in tasks : t.id = 2 /\ t.pc = "fetch"
    /\ isUploading /\ uploadStatus = IdleStatus

\* submission number i is suspended at one of its awaits
Pending(i) == \E t \in tasks : t.id = i

\* C15: when every network call settles, every submission that raised
\* InFlightFlag runs to its end (its finally block) on whichever path, and
\* the flag of the mounted component is lowered again.
C15_FlagEventuallyLowered ==
    /\ (mounted /\ isUploading) ~> (~mounted \/ ~isUploading)
    /\ \A i \in 1..MaxPosts : Pending(i) ~> ~Pending(i)

\* C15 witness: two submissions raised the flag and both have ended, the
\* last one on an error path; the flag is down
C15_Witness ==
    /\ mounted
    /\ Len(network) = 2 /\ tasks = {}
    /\ uploadStatus.type = "error"
    /\ ~isUploading

----------------------------------------------------------------------------
(* Properties: failures of a submission *)

\* an invocation of sendToBackend that ends without having issued a request
\* (no file, or the unsupported-type throw)
EndsAtOnce == CallSubmit /\ tasks' = tasks

\* C16 as claimed: every failure of a submission ends in an Error status and
\* every thrown Error surfaces its own message: a rejected fetch shows the
\* message of the TypeError it rejected with.
C16_EveryErrorOwnMessage ==
    [][ \A t \in tasks : (mounted /\ Rejected(t)) =>
            \E e \in FetchRejections :
                uploadStatus' = [type |-> "error", message |-> e.message] ]_vars

\* C16: every failure of a submission is caught and shown as an Error
\* status. A thrown Error surfaces its own message (the server-error Error
\* of line 120, the unsupported-type Error of line 73, a TypeError of fetch)
\* unless it is a TypeError whose message is "Failed to fetch", which shows
\* the connectivity message; a thrown value that is no Error gives "Failed to
\* upload file". An invocation that ends while the component is mounted
\* leaves Success or Error, never Idle.
C16_FailuresBecomeErrorStatus ==
    [][ mounted =>
          /\ \A t \in tasks : Rejected(t) =>
                \E e \in FetchRejections :
                    uploadStatus' =
                        [type |-> "error",
                         message |->
                            IF e.message = "Failed to fetch"
                            THEN "Network error: Cannot connect to the server. "
                                 \o "Check if the API is running at /api"
                            ELSE e.message]
          /\ \A t \in tasks : Settles(t) =>
                IF t.response.ok
                THEN uploadStatus'.type = "success"
                ELSE uploadStatus' =
                        [type |-> "error",
                         message |-> serverErrorMessage(t.response,
                                                        parsedBody(t.response))]
          /\ EndsAtOnce =>
                /\ uploadStatus'.type = "error"
                /\ file # NoFile =>
                      uploadStatus'.message = "Please upload a valid video or image file"
          /\ catchMessage(NonError) = "Failed to upload file"
          /\ (\E t \in tasks : Rejected(t) \/ Settles(t)) \/ EndsAtOnce =>
                uploadStatus'.type \in {"success", "error"}
      ]_vars

\* C16 witness: a fetch rejected with a TypeError other than the recognised
\* one, and its own message is shown
C16_Witness ==
    /\ mounted /\ network # <<>> /\ tasks = {}
    /\ ~isUploading
    /\ uploadStatus = [type |-> "error", message |-> "Load failed"]

----------------------------------------------------------------------------
(* Properties: one submission at a time *)

\* C17: with submissions started only through the rendered submit button,
\* at most one request is outstanding at any time, whatever selections and
\* clears happen while it is in flight.
C17_AtMostOneOutstanding == Cardinality(tasks) <= 1

\* C17 witness: a request is outstanding, a first one has already ended, and
\* the file it was issued for has been replaced by a new selection
C17_Witness ==
    /\ mounted
    /\ Len(network) = 2
    /\ Cardinality(tasks) = 1
    /\ \E t \in tasks : t.url # previewUrl /\ t.file # file
    /\ file # NoFile /\ previewUrl # NoUrl

----------------------------------------------------------------------------
(* Properties: the handle held in state *)

\* C18: after teardown no handle is live, whatever selections, clears and
\* submissions came before and also when a submission is still in flight;
\* a teardown with no handle held makes no release call, and nothing
\* creates or releases a handle after teardown.
C18_NoLiveHandleAfterTeardown ==
    /\ [](~mounted => Live(urlCalls) = {})
    /\ [][ Unmount =>
              /\ Live(urlCalls') = {}
              /\ previewUrl = NoUrl => urlCalls' = urlCalls
              /\ previewUrl # NoUrl =>
                    urlCalls' = Append(urlCalls, Revoke(previewUrl)) ]_vars
    /\ [][ ~mounted => urlCalls' = urlCalls ]_vars

\* C18 witness: teardown with a submission in flight and no handle held,
\* after a selection and a clear
C18_Witness ==
    /\ ~mounted
    /\ tasks # {}
    /\ previewUrl = NoUrl
    /\ Created(urlCalls) # {}
    /\ Live(urlCalls) = {}

\* C19: between operations a file is selected exactly when a handle is held
\* in state.
C19_FileIffHandle == (file # NoFile) <=> (previewUrl # NoUrl)

\* C19 witness: a submission has ended and the file and its handle are both
\* still held
C19_Witness ==
    /\ mounted
    /\ file # NoFile /\ previewUrl # NoUrl /\ previewOf = file
    /\ Len(network) = 1 /\ tasks = {}
    /\ uploadStatus.type = "success"
    /\ Count(urlCalls, "create") = 2

\* the release calls made by the step
ReleasedInStep ==
    { urlCalls'[i].url : i \in { j \in (Len(urlCalls) + 1)..Len(urlCalls') :
                                    urlCalls'[j].op = "revoke" } }

\* C20: before teardown the handle held in state is live (created and never
\* released); the releases made by a selection, a clear and the effect
\* cleanup hit only handles that the state no longer holds once the
\* operation is over.
C20_HeldHandleIsLive ==
    /\ [](mounted /\ previewUrl # NoUrl => previewUrl \in Live(urlCalls))
    /\ [][ mounted' => previewUrl' \notin ReleasedInStep ]_vars

\* C20 witness: a first handle was released by the selection that replaced
\* it and again by the effect cleanup, and the handle now held is live
C20_Witness ==
    /\ mounted
    /\ previewUrl = 2
    /\ RevokeCalls(urlCalls, 1) = 2
    /\ Live(urlCalls) = {previewUrl}
    /\ isUploading

============================================================================
